---- MODULE Spec2Model ----
(***************************************************************************)
(* A model of the memorial-document generator: the comment paginator and   *)
(* the background resolver of render_pdf.py, the render pass that uses     *)
(* both, and the dataset validator of test_data.py.                        *)
(*                                                                         *)
(* Python's len(msg) * 0.5 is a float.  The model keeps every weight, the  *)
(* running weight current_len and the budget max_chars in HALF characters  *)
(* (twice the Python number), so that all of them are integers and every   *)
(* comparison of the code is exact.                                        *)
(***************************************************************************)
EXTENDS Integers, Sequences, FiniteSets, TLC

(***************************************************************************)
(* Bounds of the model.                                                    *)
(***************************************************************************)
MaxComments == 3        \* longest comment sequence handed to the paginator
MaxPerPage == 2         \* largest max_per_page tried (0 is tried as well)

(***************************************************************************)
(* Program constants.                                                      *)
(***************************************************************************)
ShortLimit == 120       \* messages up to this length count half
RenderMaxChars == 2400  \* render_pdf's max_chars
RenderMaxPerPage == 2   \* render_pdf's max_per_page

VARIABLES
  comments,       \* paginate_comments: the argument
  max_chars,      \* paginate_comments: the budget, in half characters
  max_per_page,   \* paginate_comments: the count cap
  pages,          \* paginate_comments: the local list of closed pages
  current_page,   \* paginate_comments: the page being filled
  current_len,    \* paginate_comments: its running weight, in half characters
  idx,            \* paginate_comments: position of the for loop (1-based)
  pc,             \* paginate_comments: "loop", then "done" after the return
  bg_config,      \* parse_background: the raw entry
  default_size,   \* parse_background: the default size
  default_position, \* parse_background: the default position
  parsed,         \* parse_background: <<>> before the call, <<result>> after it
  data,           \* render_pdf: the dataset load_data returned
  context,        \* render_pdf: <<>> before the pass, <<render context>> after it
  file,           \* validator: data.json: [state, content]
  vdata,          \* validator: the dataset load_json returned
  vpc,            \* validator: the call main makes next, "done" after its return
  error,          \* validator: the exception main caught
  printed,        \* validator: the lines of its report printed so far
  exit_code       \* validator: what main returned (-1 before it returns)

pvars == <<comments, max_chars, max_per_page, pages, current_page, current_len, idx, pc>>
bvars == <<bg_config, default_size, default_position, parsed>>
rvars == <<data, context>>
vvars == <<file, vdata, vpc, error, printed, exit_code>>
vars == <<pvars, bvars, rvars, vvars>>

(***************************************************************************)
(* Strings.  A message is a real string; Rep(n) builds one of length n.    *)
(***************************************************************************)
RECURSIVE Rep(_)
Rep(n) ==
  IF n = 0 THEN ""
  ELSE IF n % 2 = 0 THEN LET h == Rep(n \div 2) IN h \o h
  ELSE "x" \o Rep(n - 1)

RECURSIVE Flatten(_)
Flatten(ps) == IF ps = <<>> THEN <<>> ELSE Head(ps) \o Flatten(Tail(ps))

(***************************************************************************)
(* paginate_comments                                                       *)
(***************************************************************************)
\* c.get("message", "")
GetMessage(c) == IF "message" \in DOMAIN c THEN c["message"] ELSE ""

\* a faulty variant of EffectiveLen: short messages count in full
EffectiveLenNoDiscount(c) == 2 * Len(GetMessage(c))

\* effective_len of one comment, in half characters:
\*   msg_len if msg_len > 120 else msg_len * 0.5

EffectiveLen(c) ==
  LET msg == GetMessage(c)
      msg_len == Len(msg)
  IN IF msg_len > ShortLimit THEN 2 * msg_len ELSE msg_len

\* faulty variants of ShouldBreak: the count compared with > instead of >=,
\* the weight of the new comment left out, the guard on the empty page left
\* out, the budget compared with >= instead of >
ShouldBreakStrictCount(page, len, effective_len, maxc, maxpp) ==
  page # <<>> /\ (len + effective_len > maxc \/ Len(page) > maxpp)

ShouldBreakIgnoresNewWeight(page, len, effective_len, maxc, maxpp) ==
  page # <<>> /\ (len > maxc \/ Len(page) >= maxpp)

ShouldBreakOnEmptyPage(page, len, effective_len, maxc, maxpp) ==
  len + effective_len > maxc \/ Len(page) >= maxpp

ShouldBreakAtBudget(page, len, effective_len, maxc, maxpp) ==
  page # <<>> /\ (len + effective_len >= maxc \/ Len(page) >= maxpp)

\* the condition of the if that starts a new page
ShouldBreak(page, len, effective_len, maxc, maxpp) ==
  page # <<>> /\ (len + effective_len > maxc \/ Len(page) >= maxpp)

\* a faulty variant of LoopBody: the comment that starts a new page is lost
LoopBodyDropsOnBreak(st, c, maxc, maxpp) ==
  LET effective_len == EffectiveLen(c)
  IN IF ShouldBreak(st.current_page, st.current_len, effective_len, maxc, maxpp)
     THEN [pages |-> Append(st.pages, st.current_page),
           current_page |-> <<>>,
           current_len |-> 0]
     ELSE [pages |-> st.pages,
           current_page |-> Append(st.current_page, c),
           current_len |-> st.current_len + effective_len]

\* one iteration of the for loop, on the locals st = [pages, current_page, current_len]
LoopBody(st, c, maxc, maxpp) ==
  LET effective_len == EffectiveLen(c)
      brk == ShouldBreak(st.current_page, st.current_len, effective_len, maxc, maxpp)
      opened == IF brk
                THEN [pages |-> Append(st.pages, st.current_page),
                      current_page |-> <<>>,
                      current_len |-> 0]
                ELSE st
  IN [pages |-> opened.pages,
      current_page |-> Append(opened.current_page, c),
      current_len |-> opened.current_len + effective_len]

\* after the loop: if current_page: pages.append(current_page); return pages
FinalPages(st) ==
  IF st.current_page # <<>> THEN Append(st.pages, st.current_page) ELSE st.pages

RECURSIVE PaginateFrom(_, _, _, _)
PaginateFrom(st, cs, maxc, maxpp) ==
  IF cs = <<>> THEN FinalPages(st)
  ELSE PaginateFrom(LoopBody(st, Head(cs), maxc, maxpp), Tail(cs), maxc, maxpp)

\* the whole function, as render_pdf calls it
PaginateComments(cs, maxc, maxpp) ==
  PaginateFrom([pages |-> <<>>, current_page |-> <<>>, current_len |-> 0], cs, maxc, maxpp)

(***************************************************************************)
(* parse_background                                                        *)
(*                                                                         *)
(* A raw background entry is [kind, str, fields]: kind "str" is a plain    *)
(* string (str), kind "dict" an object (fields: its keys to their values), *)
(* kind "none" is None, kinds "num" and "list" are any other shape.  Kind  *)
(* "absent" stands for a key that a mapping does not hold; it is never an  *)
(* argument of parse_background.  A value of a field is opaque to the      *)
(* resolver; NoneValue stands for JSON null.                               *)
(***************************************************************************)
NoFields == [k \in {} |-> ""]

NoneConfig == [kind |-> "none", str |-> "", fields |-> NoFields]

AbsentEntry == [kind |-> "absent", str |-> "", fields |-> NoFields]

StrConfig(v) == [kind |-> "str", str |-> v, fields |-> NoFields]

DictConfig(f) == [kind |-> "dict", str |-> "", fields |-> f]

OtherConfig(k) == [kind |-> k, str |-> "", fields |-> NoFields]

NoneValue == "<None>"

\* dict.get(key, default) on the fields of an object
FieldGet(fields, key, default) ==
  IF key \in DOMAIN fields THEN fields[key] ELSE default

\* a faulty variant of ParseBackground: position defaults to the default size
ParseBackgroundSharedDefault(cfg, dsize, dposition) ==
  IF cfg.kind = "str"
  THEN [image |-> cfg.str, size |-> dsize, position |-> dposition]
  ELSE IF cfg.kind = "dict"
  THEN [image |-> FieldGet(cfg.fields, "image", ""),
        size |-> FieldGet(cfg.fields, "size", dsize),
        position |-> FieldGet(cfg.fields, "position", dsize)]
  ELSE [image |-> "", size |-> dsize, position |-> dposition]

\* parse_background(bg_config, default_size, default_position)
ParseBackground(cfg, dsize, dposition) ==
  IF cfg.kind = "str"
  THEN [image |-> cfg.str, size |-> dsize, position |-> dposition]
  ELSE IF cfg.kind = "dict"
  THEN [image |-> FieldGet(cfg.fields, "image", ""),
        size |-> FieldGet(cfg.fields, "size", dsize),
        position |-> FieldGet(cfg.fields, "position", dposition)]
  ELSE [image |-> "", size |-> dsize, position |-> dposition]

(***************************************************************************)
(* render_pdf                                                              *)
(*                                                                         *)
(* The dataset is [backgrounds, cover, pages, pages_list, background_image,*)
(* comments, person]: backgrounds tells whether the key "backgrounds" is   *)
(* there; cover and pages are the entries of that object, background_image *)
(* the top-level entry (AbsentEntry for a missing key); pages_list is      *)
(* <<>> for a missing key and <<list>> otherwise.                          *)
(***************************************************************************)
DefaultSize == "cover"

DefaultPosition == "center"

\* mapping.get(key, default) on an entry of a mapping
EntryGet(entry, default) == IF entry.kind = "absent" THEN default ELSE entry

\* backgrounds = data.get("backgrounds", {})
Backgrounds(d) ==
  IF d.backgrounds
  THEN [cover |-> d.cover, pages |-> d.pages, pages_list |-> d.pages_list]
  ELSE [cover |-> AbsentEntry, pages |-> AbsentEntry, pages_list |-> <<>>]

\* backgrounds.get("cover", data.get("background_image"))
CoverEntry(d) ==
  EntryGet(Backgrounds(d).cover, EntryGet(d.background_image, NoneConfig))

\* a faulty variant of PagesEntry: pages inherits what cover resolved from,
\* the legacy background_image included
PagesEntryFallsBackToCoverEntry(d) == EntryGet(Backgrounds(d).pages, CoverEntry(d))

\* backgrounds.get("pages", backgrounds.get("cover"))
PagesEntry(d) ==
  EntryGet(Backgrounds(d).pages, EntryGet(Backgrounds(d).cover, NoneConfig))

\* backgrounds.get("pages_list", [])
PagesListRaw(d) ==
  IF Backgrounds(d).pages_list = <<>> THEN <<>> ELSE Backgrounds(d).pages_list[1]

\* the render context handed to the template
RenderContext(d) ==
  [person |-> d.person,
   background_image |-> EntryGet(d.background_image, NoneConfig),
   background_cover |-> ParseBackground(CoverEntry(d), DefaultSize, DefaultPosition),
   background_pages |-> ParseBackground(PagesEntry(d), DefaultSize, DefaultPosition),
   background_pages_list |->
     [k \in 1..Len(PagesListRaw(d)) |->
        ParseBackground(PagesListRaw(d)[k], DefaultSize, DefaultPosition)],
   pages |-> PaginateComments(d.comments, 2 * RenderMaxChars, RenderMaxPerPage)]

(***************************************************************************)
(* test_data.py: the dataset validator                                     *)
(*                                                                         *)
(* The parsed dataset is a map from the path of every place of the         *)
(* document ("$" is the top level, then "person", "person.name",           *)
(* "backgrounds.pages_list[0].size", "comments[1].height", ...) to the     *)
(* value there.  Absent says that the parent holds no such key (or no such *)
(* list element); Null is None, Num the number 5; Dict is an object, whose *)
(* keys are the paths below it; List is a list: at "comments" and at       *)
(* "backgrounds.pages_list" its elements are the paths [0], [1] below it,  *)
(* anywhere else it is [1].  Every other value is that string.             *)
(***************************************************************************)
Absent == "<absent>"

Null == "<null>"

Num == "<num>"

List == "<list>"

Dict == "<dict>"

Root == "$"

NoData == [k \in {} |-> ""]

\* isinstance(v, str)
IsStr(v) == v \notin {Absent, Null, Num, List, Dict}

\* v.strip(), on the strings of the model
Strip(v) == IF v = " " THEN "" ELSE v

\* isinstance(v, str) and v.strip()
NonEmptyString(v) == IsStr(v) /\ Strip(v) # ""

\* bool(v); an object in the place of a scalar has no keys below it: {}
Truthy(v) == v \notin {"", Null, Dict}

\* the field names a string of the model contains (key in "some string")
Substrings(v) == IF v = "author message" THEN {"author", "message"} ELSE {}

\* re.compile(r'^\d+%\s+\d+%$').match, on the strings of the model
MatchesPercentage(v) == v \in {"50% 50%", "100%  20%"}

\* re.compile(r'^\d+px$').match, on the strings of the model
MatchesHeight(v) == v \in {"120px", "0px"}

\* (ROOT / filepath).exists(): ROOT / "" is ROOT itself
ExistingFiles == {"ok.jpg", "ann.jpg"}

Exists(filepath) == filepath \in ExistingFiles \cup {""}

ChildPath(path, key) == IF path = Root THEN key ELSE path \o "." \o key

Element(path, i) == path \o "[" \o ToString(i) \o "]"

\* the list elements the model has places for
Indices == {0, 1}

\* len() of the list at path
RECURSIVE LenFrom(_, _, _)
LenFrom(d, path, i) ==
  IF i \in Indices /\ d[Element(path, i)] # Absent
  THEN 1 + LenFrom(d, path, i + 1)
  ELSE 0

ListLen(d, path) == LenFrom(d, path, 0)

\* How a call ends: it returns (Passed), raises ValidationError, whose
\* message names a place (where; the JSON parser's message names none of the
\* dataset) and says what is wrong with it (reason), or raises an exception of
\* Python's own, whose message names no place.
Passed == [kind |-> "ok", where |-> "", reason |-> ""]

NoError == Passed

ValidationError(where, reason) ==
  [kind |-> "ValidationError", where |-> where, reason |-> reason]

TypeError(reason) == [kind |-> "TypeError", where |-> "", reason |-> reason]

\* first; second -- an exception raised by the first statement ends the call
Then(first, second) == IF first # Passed THEN first ELSE second

\* key in d[path]
Contains(d, path, key) ==
  LET v == d[path]
  IN IF v = Dict THEN (IF d[ChildPath(path, key)] # Absent THEN "yes" ELSE "no")
     ELSE IF IsStr(v) THEN (IF key \in Substrings(v) THEN "yes" ELSE "no")
     ELSE IF v = List THEN "no"
     ELSE "TypeError"

\* if key not in d[path]: raise missing
Require(d, path, key, missing) ==
  LET c == Contains(d, path, key)
  IN IF c = "TypeError" THEN TypeError("argument of type is not iterable")
     ELSE IF c = "no" THEN missing
     ELSE Passed

\* d[path][key], for a key that is in d[path]
Subscript(d, path) ==
  IF d[path] = Dict THEN Passed ELSE TypeError("string indices must be integers")

\* load_json
LoadJson(f) ==
  IF f.state = "missing" THEN ValidationError("data.json", "File not found")
  ELSE IF f.state = "invalid" THEN ValidationError("", "Invalid JSON syntax")
  ELSE Passed

\* validate_file_exists
ValidateFileExists(filepath, description) ==
  IF ~IsStr(filepath) THEN TypeError("unsupported operand type(s) for /")
  ELSE IF ~Exists(filepath) THEN ValidationError(description, "not found")
  ELSE Passed

\* validate_person
RequiredPersonFields == <<"name", "subtitle", "profile_image", "header_note", "date_range">>

RECURSIVE PersonFieldsFrom(_, _)
PersonFieldsFrom(d, fields) ==
  IF fields = <<>> THEN Passed
  ELSE LET path == ChildPath("person", Head(fields))
       IN Then(Require(d, "person", Head(fields),
                       ValidationError(path, "Missing required field in person")),
          Then(Subscript(d, "person"),
          Then(IF NonEmptyString(d[path]) THEN Passed
               ELSE ValidationError(path, "must be a non-empty string"),
               PersonFieldsFrom(d, Tail(fields)))))

ValidatePerson(d) ==
  Then(Require(d, Root, "person",
               ValidationError("person", "Missing required top-level key")),
  Then(Subscript(d, Root),
  Then(PersonFieldsFrom(d, RequiredPersonFields),
       ValidateFileExists(d["person.profile_image"], "Person profile image"))))

\* validate_background_object
RequiredBackgroundFields == <<"image", "size", "position">>

ValidSizes == {"cover", "contain", "auto"}

RECURSIVE BackgroundFieldsFrom(_, _, _)
BackgroundFieldsFrom(d, path, fields) ==
  IF fields = <<>> THEN Passed
  ELSE Then(Require(d, path, Head(fields),
                    ValidationError(ChildPath(path, Head(fields)),
                                    "Missing required field in " \o path)),
            BackgroundFieldsFrom(d, path, Tail(fields)))

SizeFormat(size, path) ==
  IF size \in ValidSizes THEN Passed
  ELSE IF ~IsStr(size) THEN TypeError("expected string or bytes-like object")
  ELSE IF MatchesPercentage(size) THEN Passed
  ELSE ValidationError(ChildPath(path, "size"),
                       "must be 'cover', 'contain', 'auto', or 'XX% XX%' format")

ValidateBackgroundObject(d, path) ==
  IF d[path] # Dict THEN ValidationError(path, "must be an object")
  ELSE Then(BackgroundFieldsFrom(d, path, RequiredBackgroundFields),
       Then(ValidateFileExists(d[ChildPath(path, "image")], path \o " image"),
       Then(SizeFormat(d[ChildPath(path, "size")], path),
            IF NonEmptyString(d[ChildPath(path, "position")]) THEN Passed
            ELSE ValidationError(ChildPath(path, "position"),
                                 "must be a non-empty string"))))

\* validate_backgrounds
RECURSIVE PagesListFrom(_, _)
PagesListFrom(d, i) ==
  IF i >= ListLen(d, "backgrounds.pages_list") THEN Passed
  ELSE Then(ValidateBackgroundObject(d, Element("backgrounds.pages_list", i)),
            PagesListFrom(d, i + 1))

ValidatePagesList(d) ==
  IF d["backgrounds.pages_list"] # List
  THEN ValidationError("backgrounds.pages_list", "must be an array")
  ELSE PagesListFrom(d, 0)

ValidateBackgrounds(d) ==
  Then(Require(d, Root, "backgrounds",
               ValidationError("backgrounds", "Missing required top-level key")),
  Then(Subscript(d, Root),
  Then(Require(d, "backgrounds", "cover",
               ValidationError("backgrounds.cover", "Missing required field")),
  Then(Subscript(d, "backgrounds"),
  Then(ValidateBackgroundObject(d, "backgrounds.cover"),
  Then(IF Contains(d, "backgrounds", "pages") = "yes"
       THEN ValidateBackgroundObject(d, "backgrounds.pages") ELSE Passed,
       IF Contains(d, "backgrounds", "pages_list") = "yes"
       THEN ValidatePagesList(d) ELSE Passed))))))

\* validate_comments: the body of the for loop, for comments[i]
ProfileImage(d, path) ==
  IF Contains(d, path, "profile_image") = "yes"
       /\ Truthy(d[ChildPath(path, "profile_image")])
  THEN LET found == ValidateFileExists(d[ChildPath(path, "profile_image")],
                                       ChildPath(path, "profile_image"))
       IN IF found.kind = "ValidationError"
          THEN ValidationError(found.where,
                 "Invalid profile_image for " \o d[ChildPath(path, "author")])
          ELSE found
  ELSE Passed

Height(d, path) ==
  IF Contains(d, path, "height") = "yes"
  THEN LET height == d[ChildPath(path, "height")]
       IN IF ~IsStr(height) THEN TypeError("expected string or bytes-like object")
          ELSE IF MatchesHeight(height) THEN Passed
          ELSE ValidationError(ChildPath(path, "height"), "must be in format 'XXXpx'")
  ELSE Passed

ValidateComment(d, i) ==
  LET path == Element("comments", i)
  IN Then(Require(d, path, "author",
                  ValidationError(ChildPath(path, "author"), "Missing 'author'")),
     Then(Require(d, path, "message",
                  ValidationError(ChildPath(path, "message"), "Missing 'message'")),
     Then(Subscript(d, path),
     Then(IF NonEmptyString(d[ChildPath(path, "author")]) THEN Passed
          ELSE ValidationError(ChildPath(path, "author"), "must be a non-empty string"),
     Then(IF NonEmptyString(d[ChildPath(path, "message")]) THEN Passed
          ELSE ValidationError(ChildPath(path, "message"), "must be a non-empty string"),
     Then(ProfileImage(d, path),
          Height(d, path)))))))

\* validate_comments
RECURSIVE CommentsFrom(_, _)
CommentsFrom(d, i) ==
  IF i >= ListLen(d, "comments") THEN Passed
  ELSE Then(ValidateComment(d, i), CommentsFrom(d, i + 1))

ValidateComments(d) ==
  Then(Require(d, Root, "comments",
               ValidationError("comments", "Missing required top-level key")),
  Then(Subscript(d, Root),
  Then(IF d["comments"] # List
       THEN ValidationError("comments", "must be an array") ELSE Passed,
  Then(IF ListLen(d, "comments") = 0
       THEN ValidationError("comments", "array is empty") ELSE Passed,
       CommentsFrom(d, 0)))))

\* duplicates = [author for author in set(authors) if authors.count(author) > 1]
DuplicateAuthors(d) ==
  {d[ChildPath(Element("comments", i), "author")] : i \in
     {i \in 0..(ListLen(d, "comments") - 1) :
        \E j \in 0..(ListLen(d, "comments") - 1) :
          /\ j # i
          /\ d[ChildPath(Element("comments", j), "author")]
               = d[ChildPath(Element("comments", i), "author")]}}

\* what validate_comments prints when it passes
CommentsReport(d) ==
  (IF DuplicateAuthors(d) # {} THEN <<"Warning: Duplicate authors found">> ELSE <<>>)
    \o <<"All comments are valid">>

\* a faulty variant of MainCalls: the comments are validated before the backgrounds
MainCallsCommentsFirst == <<"load", "person", "comments", "backgrounds">>

\* main: the calls of its try block, in order
MainCalls == <<"load", "person", "backgrounds", "comments">>

\* the call after the one at position k, "done" after the last
CallAfter(call) ==
  LET k == CHOOSE i \in 1..Len(MainCalls) : MainCalls[i] = call
  IN IF k = Len(MainCalls) THEN "done" ELSE MainCalls[k + 1]

\* main: the except clauses
FailureReport(e) ==
  IF e.kind = "ValidationError" THEN "Validation failed" ELSE "Unexpected error"

(***************************************************************************)
(* Each program runs alone; the variables of the others keep these values. *)
(***************************************************************************)
PaginateIdle ==
  /\ comments = <<>>
  /\ max_chars = 0
  /\ max_per_page = 0
  /\ pages = <<>>
  /\ current_page = <<>>
  /\ current_len = 0
  /\ idx = 1
  /\ pc = "idle"

ResolveIdle ==
  /\ bg_config = NoneConfig
  /\ default_size = ""
  /\ default_position = ""
  /\ parsed = <<>>

RenderIdle ==
  /\ data = [backgrounds |-> FALSE, cover |-> AbsentEntry, pages |-> AbsentEntry,
             pages_list |-> <<>>, background_image |-> AbsentEntry,
             comments |-> <<>>, person |-> ""]
  /\ context = <<>>

ValidateIdle ==
  /\ file = [state |-> "missing", content |-> NoData]
  /\ vdata = NoData
  /\ vpc = "idle"
  /\ error = NoError
  /\ printed = <<>>
  /\ exit_code = -1

(***************************************************************************)
(* The inputs the paginator is run on.                                     *)
(***************************************************************************)
Authors == {"Ann", "Bob"}

\* message lengths on both sides of the half-weight limit, and the empty message
MessageLengths == {0, 1, ShortLimit, ShortLimit + 1}

Messages == {Rep(n) : n \in MessageLengths}

\* comments with a message, and one without the key
Comments == [author : Authors, message : Messages] \cup [author : {"Cy"}]

\* budgets in half characters: max_chars = 0, 0.5, 60.5, 121, 242
MaxCharsChoices == {0, 1, 121, 242, 484}

RECURSIVE SeqsUpTo(_, _)
SeqsUpTo(S, n) ==
  IF n = 0 THEN {<<>>}
  ELSE LET shorter == SeqsUpTo(S, n - 1)
       IN shorter \cup {Append(s, x) : s \in {t \in shorter : Len(t) = n - 1}, x \in S}

PaginateInit ==
  /\ comments \in SeqsUpTo(Comments, MaxComments)
  /\ max_chars \in MaxCharsChoices
  /\ max_per_page \in 0..MaxPerPage
  /\ pages = <<>>
  /\ current_page = <<>>
  /\ current_len = 0
  /\ idx = 1
  /\ pc = "loop"
  /\ ResolveIdle
  /\ RenderIdle
  /\ ValidateIdle

\* for c in comments: one iteration
PaginateLoop ==
  /\ pc = "loop"
  /\ idx <= Len(comments)
  /\ LET st == LoopBody([pages |-> pages, current_page |-> current_page,
                         current_len |-> current_len],
                        comments[idx], max_chars, max_per_page)
     IN /\ pages' = st.pages
        /\ current_page' = st.current_page
        /\ current_len' = st.current_len
  /\ idx' = idx + 1
  /\ UNCHANGED <<comments, max_chars, max_per_page, pc>>
  /\ UNCHANGED <<bvars, rvars, vvars>>

\* the loop is over: close the last page and return
PaginateReturn ==
  /\ pc = "loop"
  /\ idx > Len(comments)
  /\ pages' = FinalPages([pages |-> pages, current_page |-> current_page,
                          current_len |-> current_len])
  /\ pc' = "done"
  /\ UNCHANGED <<comments, max_chars, max_per_page, current_page, current_len, idx>>
  /\ UNCHANGED <<bvars, rvars, vvars>>

PaginateNext == PaginateLoop \/ PaginateReturn

SpecPaginate == PaginateInit /\ [][PaginateNext]_vars

(***************************************************************************)
(* The inputs the resolver is run on.                                      *)
(***************************************************************************)
FieldKeys == {"image", "size", "position", "repeat"}

FieldValues(key) ==
  CASE key = "image" -> {"bg.jpg", NoneValue}
    [] key = "size" -> {"50% 50%", "contain"}
    [] key = "position" -> {"top", NoneValue}
    [] OTHER -> {"no-repeat"}

\* every object over a subset of the keys
DictFields ==
  UNION { {f \in [K -> UNION {FieldValues(k) : k \in K}] :
             \A k \in K : f[k] \in FieldValues(k)} : K \in SUBSET FieldKeys }

BgConfigs ==
  {StrConfig("photo.jpg"), StrConfig(""), NoneConfig, OtherConfig("num"), OtherConfig("list")}
    \cup {DictConfig(f) : f \in DictFields}

ResolveInit ==
  /\ bg_config \in BgConfigs
  /\ default_size \in {"cover", "auto"}
  /\ default_position \in {"center", "top"}
  /\ parsed = <<>>
  /\ PaginateIdle
  /\ RenderIdle
  /\ ValidateIdle

\* one call of parse_background
ParseCall ==
  /\ parsed = <<>>
  /\ parsed' = <<ParseBackground(bg_config, default_size, default_position)>>
  /\ UNCHANGED <<bg_config, default_size, default_position>>
  /\ UNCHANGED <<pvars, rvars, vvars>>

ResolveNext == ParseCall

SpecResolve == ResolveInit /\ [][ResolveNext]_vars

(***************************************************************************)
(* The datasets the render pass is run on: every comment has an author,    *)
(* "backgrounds" is an object when it is there and "pages_list" a list.    *)
(***************************************************************************)
MaxRenderComments == 2  \* longest comment sequence of a rendered dataset

RenderEntries ==
  {AbsentEntry, NoneConfig, StrConfig("cover.jpg"),
   DictConfig([image |-> "bg.jpg"]),
   DictConfig([image |-> "bg.jpg", size |-> "50% 50%"]),
   DictConfig([size |-> "contain", position |-> "top"])}

RenderPagesLists ==
  {<<>>, << <<>> >>,
   << <<StrConfig("p1.jpg"), DictConfig([image |-> "p2.jpg", position |-> "top"])>> >>}

\* a short message, one that fills the page budget with a short one, an oversized one
RenderComments ==
  {[author |-> "Ann", message |-> Rep(50)],
   [author |-> "Bob", message |-> Rep(RenderMaxChars - 10)],
   [author |-> "Cy", message |-> Rep(RenderMaxChars + 600)]}

RenderDatasets ==
  {d \in [backgrounds : BOOLEAN, cover : RenderEntries, pages : RenderEntries,
          pages_list : RenderPagesLists,
          background_image : {AbsentEntry, StrConfig("legacy.jpg")},
          comments : SeqsUpTo(RenderComments, MaxRenderComments),
          person : {"person"}] :
     ~d.backgrounds =>
        /\ d.cover = AbsentEntry
        /\ d.pages = AbsentEntry
        /\ d.pages_list = <<>>}

RenderInit ==
  /\ data \in RenderDatasets
  /\ context = <<>>
  /\ PaginateIdle
  /\ ResolveIdle
  /\ ValidateIdle

\* the render pass, up to the context handed to the template
RenderPdf ==
  /\ context = <<>>
  /\ context' = <<RenderContext(data)>>
  /\ UNCHANGED data
  /\ UNCHANGED <<pvars, bvars, vvars>>

RenderNext == RenderPdf

SpecRender == RenderInit /\ [][RenderNext]_vars

(***************************************************************************)
(* The files the validator is run on: a valid dataset with up to           *)
(* MaxDefects of its places replaced, a missing file, a file that is not   *)
(* JSON.                                                                   *)
(***************************************************************************)
MaxDefects == 2         \* how many places of the valid dataset are replaced

ValidDataset ==
  (Root :> Dict)
  @@ ("person" :> Dict)
  @@ ("person.name" :> "Bryan")
  @@ ("person.subtitle" :> "In loving memory")
  @@ ("person.profile_image" :> "ok.jpg")
  @@ ("person.header_note" :> "Memories")
  @@ ("person.date_range" :> "1950 - 2020")
  @@ ("backgrounds" :> Dict)
  @@ ("backgrounds.cover" :> Dict)
  @@ ("backgrounds.cover.image" :> "ok.jpg")
  @@ ("backgrounds.cover.size" :> "cover")
  @@ ("backgrounds.cover.position" :> "center")
  @@ ("backgrounds.pages" :> Dict)
  @@ ("backgrounds.pages.image" :> "ok.jpg")
  @@ ("backgrounds.pages.size" :> "contain")
  @@ ("backgrounds.pages.position" :> "top")
  @@ ("backgrounds.pages_list" :> List)
  @@ ("backgrounds.pages_list[0]" :> Dict)
  @@ ("backgrounds.pages_list[0].image" :> "ok.jpg")
  @@ ("backgrounds.pages_list[0].size" :> "50% 50%")
  @@ ("backgrounds.pages_list[0].position" :> "center")
  @@ ("backgrounds.pages_list[1]" :> Dict)
  @@ ("backgrounds.pages_list[1].image" :> "ok.jpg")
  @@ ("backgrounds.pages_list[1].size" :> "auto")
  @@ ("backgrounds.pages_list[1].position" :> "left top")
  @@ ("comments" :> List)
  @@ ("comments[0]" :> Dict)
  @@ ("comments[0].author" :> "Ann")
  @@ ("comments[0].message" :> "hello")
  @@ ("comments[0].profile_image" :> Absent)
  @@ ("comments[0].height" :> Absent)
  @@ ("comments[1]" :> Dict)
  @@ ("comments[1].author" :> "Bob")
  @@ ("comments[1].message" :> "goodbye")
  @@ ("comments[1].profile_image" :> Absent)
  @@ ("comments[1].height" :> Absent)

\* <<place, value put there>>: missing keys, wrong shapes, wrong types,
\* malformed formats, missing assets, and some replacements that stay valid
Defects ==
  ({"person"} \X {Absent, Null, Num, List, "Bryan"})
  \cup ({"person.name"} \X {Absent, "", Num})
  \cup ({"person.date_range"} \X {Absent, " "})
  \cup ({"person.profile_image"} \X {Absent, "missing.jpg", Null})
  \cup ({"backgrounds"} \X {Absent, Null, List, "text"})
  \cup ({"backgrounds.cover"} \X {Absent, Null, "cover.jpg"})
  \cup ({"backgrounds.cover.image"} \X {Absent, "missing.jpg", Num, ""})
  \cup ({"backgrounds.cover.size"} \X {Absent, "bogus", Num, Null, "100%  20%"})
  \cup ({"backgrounds.cover.position"} \X {Absent, " ", Num})
  \cup ({"backgrounds.pages"} \X {Absent, Num, "pages.jpg"})
  \cup ({"backgrounds.pages.image"} \X {"missing.jpg"})
  \cup ({"backgrounds.pages.size"} \X {"50%", List})
  \cup ({"backgrounds.pages_list"} \X {Absent, Dict, Num, "text"})
  \cup ({"backgrounds.pages_list[0]"} \X {Absent, Num})
  \cup ({"backgrounds.pages_list[0].size"} \X {"bogus", Num})
  \cup ({"backgrounds.pages_list[1]"} \X {Absent, "p.jpg"})
  \cup ({"backgrounds.pages_list[1].image"} \X {Absent, "missing.jpg"})
  \cup ({"comments"} \X {Absent, Null, Dict, "text"})
  \cup ({"comments[0]"} \X {Absent, Num, Null, List, "hello", "author message"})
  \cup ({"comments[0].author"} \X {Absent, "", Num})
  \cup ({"comments[0].message"} \X {Absent, " ", Null})
  \cup ({"comments[0].profile_image"} \X {"ann.jpg", "missing.jpg", "", Null, Num})
  \cup ({"comments[0].height"} \X {"120px", "120", Num})
  \cup ({"comments[1]"} \X {Absent, Num})
  \cup ({"comments[1].author"} \X {"", "Ann"})
  \cup ({"comments[1].message"} \X {Absent})
  \cup ({"comments[1].height"} \X {"120 px", Num})

RECURSIVE Datasets(_)
Datasets(n) ==
  IF n = 0 THEN {ValidDataset}
  ELSE LET fewer == Datasets(n - 1)
       IN fewer \cup {[d EXCEPT ![x[1]] = x[2]] : d \in fewer, x \in Defects}

Files ==
  {[state |-> "missing", content |-> NoData], [state |-> "invalid", content |-> NoData]}
    \cup {[state |-> "ok", content |-> d] : d \in Datasets(MaxDefects)}

ValidateInit ==
  /\ file \in Files
  /\ vdata = NoData
  /\ vpc = MainCalls[1]
  /\ error = NoError
  /\ printed = <<>>
  /\ exit_code = -1
  /\ PaginateIdle
  /\ ResolveIdle
  /\ RenderIdle

\* one call of main's try block has ended with outcome: main goes on to the
\* next call after printing report, returns 0 after the last one, or catches
\* the exception, prints the failure and returns 1
MainStep(call, outcome, report) ==
  /\ vpc = call
  /\ IF outcome = Passed
     THEN /\ vpc' = CallAfter(call)
          /\ printed' = printed \o report
                \o (IF CallAfter(call) = "done" THEN <<"All validations passed!">> ELSE <<>>)
          /\ exit_code' = IF CallAfter(call) = "done" THEN 0 ELSE exit_code
          /\ error' = error
     ELSE /\ vpc' = "done"
          /\ printed' = Append(printed, FailureReport(outcome))
          /\ exit_code' = 1
          /\ error' = outcome
  /\ UNCHANGED file
  /\ UNCHANGED <<pvars, bvars, rvars>>

\* data = load_json()
MainLoadJson ==
  /\ vpc = "load"
  /\ MainStep("load", LoadJson(file), <<"JSON syntax is valid">>)
  /\ vdata' = IF LoadJson(file) = Passed THEN file.content ELSE vdata

\* validate_person(data)
MainValidatePerson ==
  /\ vpc = "person"
  /\ MainStep("person", ValidatePerson(vdata), <<"Person object is valid">>)
  /\ UNCHANGED vdata

\* validate_backgrounds(data)
MainValidateBackgrounds ==
  /\ vpc = "backgrounds"
  /\ MainStep("backgrounds", ValidateBackgrounds(vdata),
              <<"Backgrounds configuration is valid">>)
  /\ UNCHANGED vdata

\* validate_comments(data)
MainValidateComments ==
  /\ vpc = "comments"
  /\ MainStep("comments", ValidateComments(vdata), CommentsReport(vdata))
  /\ UNCHANGED vdata

ValidateNext ==
  \/ MainLoadJson
  \/ MainValidatePerson
  \/ MainValidateBackgrounds
  \/ MainValidateComments

SpecValidate == ValidateInit /\ [][ValidateNext]_vars

(***************************************************************************)
(* Claims about paginate_comments.  The weight of a comment is written     *)
(* here from its definition in the specification, in half characters:      *)
(* len(message) when len(message) > 120, len(message) / 2 otherwise.       *)
(***************************************************************************)
ClaimWeight(c) ==
  LET n == IF "message" \in DOMAIN c THEN Len(c["message"]) ELSE 0
  IN IF n > 120 THEN 2 * n ELSE n

RECURSIVE PageWeight(_)
PageWeight(page) ==
  IF page = <<>> THEN 0 ELSE ClaimWeight(Head(page)) + PageWeight(Tail(page))

Max(a, b) == IF a >= b THEN a ELSE b

Last(s) == s[Len(s)]

\* the pages closed so far, followed by the page being filled when it holds something
PagesSoFar ==
  IF pc = "loop" /\ current_page # <<>> THEN Append(pages, current_page) ELSE pages

\* C1: the returned pages, concatenated in page order, are the input sequence:
\* nothing dropped, nothing duplicated, nothing reordered.  While the loop
\* runs, the pages so far are the comments already processed.
C1_Concatenation ==
  /\ pc = "loop" => Flatten(PagesSoFar) = SubSeq(comments, 1, idx - 1)
  /\ pc = "done" => Flatten(pages) = comments

C1_Witness ==
  /\ pc = "done"
  /\ Len(comments) = 3
  /\ Len(pages) = 2
  /\ comments[1] = comments[3]

\* C2 as stated: for every integer max_per_page, every returned page holds
\* at most max_per_page comments.
C2_Original ==
  pc = "done" => \A k \in 1..Len(pages) : Len(pages[k]) <= max_per_page

\* C2 as amended: every page holds at most max(1, max_per_page) comments; a
\* max_per_page of 0 or less still puts one comment on each page.
C2_PageCap ==
  \A k \in 1..Len(PagesSoFar) : Len(PagesSoFar[k]) <= Max(1, max_per_page)

C2_Witness ==
  /\ pc = "done"
  /\ max_per_page = 2
  /\ Len(comments) = 3
  /\ Len(pages) = 2
  /\ Len(pages[1]) = 2
  /\ PageWeight(pages[1]) + ClaimWeight(comments[3]) <= max_chars

\* C3: a page whose total weight exceeds max_weight is a single comment whose
\* own weight exceeds max_weight; so when every comment weighs at most
\* max_weight, so does every page.
C3_WeightBudget ==
  /\ \A k \in 1..Len(PagesSoFar) :
       PageWeight(PagesSoFar[k]) > max_chars
         => /\ Len(PagesSoFar[k]) = 1
            /\ ClaimWeight(PagesSoFar[k][1]) > max_chars
  /\ (\A i \in 1..Len(comments) : ClaimWeight(comments[i]) <= max_chars)
       => \A k \in 1..Len(PagesSoFar) : PageWeight(PagesSoFar[k]) <= max_chars

C3_Witness ==
  /\ pc = "done"
  /\ Len(pages) = 2
  /\ Len(pages[1]) = 1
  /\ PageWeight(pages[1]) > max_chars
  /\ Len(pages[2]) = 2
  /\ PageWeight(pages[2]) = max_chars
  /\ max_chars > 0

\* C4: no page is empty, and the result is the empty sequence exactly when
\* the input is.
C4_NoEmptyPage ==
  /\ \A k \in 1..Len(pages) : pages[k] # <<>>
  /\ pc = "done" => (pages = <<>> <=> comments = <<>>)

C4_Witness ==
  /\ pc = "done"
  /\ max_per_page = 0
  /\ Len(comments) = 2
  /\ Len(pages) = 2
  /\ ClaimWeight(comments[1]) > max_chars

\* The state right after the loop processed a comment of weight 0 and closed
\* the page before it: the comment is alone on the current page and the page
\* closed last is the one that was current.
ZeroWeightClosedAPage ==
  /\ pc = "loop"
  /\ idx > 1
  /\ ClaimWeight(comments[idx - 1]) = 0
  /\ current_page = <<comments[idx - 1]>>
  /\ pages # <<>>

\* C9 as stated: a comment of weight 0 closes the current page only when the
\* page already holds max_per_page comments or more.
C9_Original ==
  ZeroWeightClosedAPage => Len(Last(pages)) >= max_per_page

\* C9 as amended: a comment of weight 0 closes the current page only when the
\* page already holds max_per_page comments or more, or when the weight of the
\* page alone already exceeds max_weight.
C9_ZeroWeightBreak ==
  ZeroWeightClosedAPage
    => \/ Len(Last(pages)) >= max_per_page
       \/ PageWeight(Last(pages)) > max_chars

C9_Witness ==
  /\ ZeroWeightClosedAPage
  /\ Len(Last(pages)) < max_per_page
  /\ Len(Last(pages)) = 1
  /\ PageWeight(Last(pages)) > max_chars
  /\ max_chars > 0

\* C10: a page is closed only when it has to be.  Of two consecutive pages P
\* and Q, P holds max_per_page comments or more, or the weight of P plus the
\* weight of the first comment of Q exceeds max_weight.
C10_GreedyMaximal ==
  \A k \in 1..(Len(PagesSoFar) - 1) :
    \/ Len(PagesSoFar[k]) >= max_per_page
    \/ PageWeight(PagesSoFar[k]) + ClaimWeight(PagesSoFar[k + 1][1]) > max_chars

C10_Witness ==
  /\ pc = "done"
  /\ Len(pages) = 2
  /\ Len(pages[1]) = 1
  /\ Len(pages[1]) < max_per_page
  /\ PageWeight(pages[1]) <= max_chars
  /\ PageWeight(pages[1]) + ClaimWeight(pages[2][1]) > max_chars

(***************************************************************************)
(* Claims about parse_background and the render pass.                      *)
(***************************************************************************)
\* the record parse_background returned, stated from its contract
C5_Resolved ==
  parsed # <<>> =>
    LET r == parsed[1]
        f == bg_config.fields
    IN /\ DOMAIN r = {"image", "size", "position"}
       /\ bg_config.kind = "str" =>
            /\ r.image = bg_config.str
            /\ r.size = default_size
            /\ r.position = default_position
       /\ bg_config.kind = "dict" =>
            /\ r.image = IF "image" \in DOMAIN f THEN f["image"] ELSE ""
            /\ r.size = IF "size" \in DOMAIN f THEN f["size"] ELSE default_size
            /\ r.position = IF "position" \in DOMAIN f THEN f["position"]
                            ELSE default_position
       /\ bg_config.kind \notin {"str", "dict"} =>
            r = [image |-> "", size |-> default_size, position |-> default_position]

\* C5: parse_background returns exactly the fields image, size, position: of a
\* plain string, the string and the two defaults; of an object, each field of
\* the object that is present and "" / default_size / default_position for
\* each that is not; of None or any other shape, "" and the two defaults.
\* The raw entry is not modified.
C5_ParseBackground == [](C5_Resolved) /\ [][bg_config' = bg_config]_vars

C5_Witness ==
  /\ parsed # <<>>
  /\ bg_config.kind = "dict"
  /\ DOMAIN bg_config.fields = {"image", "size", "repeat"}
  /\ parsed[1].size = "50% 50%"
  /\ parsed[1].position = "top"
  /\ default_position = "top"
  /\ default_size = "auto"

\* the entries of "backgrounds" as the dataset configures them
ConfiguredCover == IF data.backgrounds THEN data.cover ELSE AbsentEntry

ConfiguredPages == IF data.backgrounds THEN data.pages ELSE AbsentEntry

IsConfigured(entry) == entry.kind # "absent"

\* the resolution of a raw entry, an unconfigured one being absent (None)
Resolution(entry) ==
  ParseBackground(IF IsConfigured(entry) THEN entry ELSE NoneConfig, "cover", "center")

\* C6 as stated: without backgrounds.pages the pages background is the
\* resolution of the raw cover entry and equals the cover background; with it,
\* the pages background is the resolution of the pages entry and the cover
\* background the resolution of the cover entry.
C6_Original ==
  context # <<>> =>
    /\ ~IsConfigured(ConfiguredPages) =>
         /\ context[1].background_pages = Resolution(ConfiguredCover)
         /\ context[1].background_pages = context[1].background_cover
    /\ IsConfigured(ConfiguredPages) =>
         /\ context[1].background_pages = Resolution(ConfiguredPages)
         /\ context[1].background_cover = Resolution(ConfiguredCover)

\* C6 as amended: the cover background is the resolution of backgrounds.cover
\* when that is configured and of the top-level background_image otherwise.
\* Without backgrounds.pages the pages background is the resolution of the raw
\* backgrounds.cover entry, and equals the cover background when
\* backgrounds.cover is configured or there is no background_image; with
\* backgrounds.pages it is the resolution of the pages entry alone.
C6_PagesFallback ==
  context # <<>> =>
    /\ ~IsConfigured(ConfiguredPages) =>
         /\ context[1].background_pages = Resolution(ConfiguredCover)
         /\ (IsConfigured(ConfiguredCover) \/ ~IsConfigured(data.background_image))
              => context[1].background_pages = context[1].background_cover
    /\ IsConfigured(ConfiguredPages) =>
         context[1].background_pages = Resolution(ConfiguredPages)
    /\ IsConfigured(ConfiguredCover) =>
         context[1].background_cover = Resolution(ConfiguredCover)
    /\ ~IsConfigured(ConfiguredCover) =>
         context[1].background_cover = Resolution(data.background_image)

C6_Witness ==
  /\ context # <<>>
  /\ ~IsConfigured(ConfiguredPages)
  /\ IsConfigured(ConfiguredCover)
  /\ IsConfigured(data.background_image)
  /\ context[1].background_pages = context[1].background_cover
  /\ context[1].background_pages.image = "bg.jpg"
  /\ context[1].background_pages.size = "50% 50%"

(***************************************************************************)
(* Claims about the validator.                                             *)
(***************************************************************************)
\* the first outcome of a sequence of outcomes that is a failure
FirstFailure(outcomes) ==
  IF \A k \in 1..Len(outcomes) : outcomes[k] = Passed THEN Passed
  ELSE outcomes[CHOOSE k \in 1..Len(outcomes) :
                  /\ outcomes[k] # Passed
                  /\ \A j \in 1..(k - 1) : outcomes[j] = Passed]

\* what the validator prints for each check that passes, in the order of the checks
PassReports(f) ==
  IF LoadJson(f) # Passed THEN <<>>
  ELSE << <<"JSON syntax is valid">>, <<"Person object is valid">>,
          <<"Backgrounds configuration is valid">>, CommentsReport(f.content) >>

\* the checks of the backgrounds of a dataset whose "backgrounds" is an
\* object, each taken alone: cover, pages, then pages_list and its elements
BackgroundChecks(d) ==
  << IF d["backgrounds.cover"] = Absent
     THEN ValidationError("backgrounds.cover", "Missing required field")
     ELSE ValidateBackgroundObject(d, "backgrounds.cover"),
     IF d["backgrounds.pages"] = Absent THEN Passed
     ELSE ValidateBackgroundObject(d, "backgrounds.pages"),
     IF d["backgrounds.pages_list"] \in {Absent, List} THEN Passed
     ELSE ValidationError("backgrounds.pages_list", "must be an array") >>
  \o [i \in 1..(IF d["backgrounds.pages_list"] = List
                THEN ListLen(d, "backgrounds.pages_list") ELSE 0) |->
        ValidateBackgroundObject(d, Element("backgrounds.pages_list", i - 1))]

\* the checks of the comments of a dataset whose "comments" is a list, each
\* comment taken alone
CommentChecks(d) ==
  [i \in 1..ListLen(d, "comments") |-> ValidateComment(d, i - 1)]

\* the four checks of main on the file, each taken alone
FileChecks(f) ==
  IF LoadJson(f) # Passed THEN <<LoadJson(f)>>
  ELSE <<LoadJson(f), ValidatePerson(f.content), ValidateBackgrounds(f.content),
         ValidateComments(f.content)>>

\* the number of checks that pass before the first one that fails
PassedBefore(outcomes) ==
  Cardinality({k \in 1..Len(outcomes) : \A j \in 1..k : outcomes[j] = Passed})

RECURSIVE Concat(_)
Concat(ss) == IF ss = <<>> THEN <<>> ELSE Head(ss) \o Concat(Tail(ss))

\* C7: the checks run in the order load, person, backgrounds (cover, pages,
\* pages_list elements by index), comments (by index) and the run stops at the
\* first that fails: the reason reported is that of the earliest failing
\* check, and the report holds the passes before it and nothing after it.
C7_FailFast ==
  vpc = "done" =>
    LET outcomes == FileChecks(file)
        first == FirstFailure(outcomes)
        passed == PassedBefore(outcomes)
        d == file.content
    IN /\ error = first
       /\ exit_code = IF first = Passed THEN 0 ELSE 1
       /\ printed = Concat(SubSeq(PassReports(file), 1, passed))
             \o (IF first = Passed THEN <<"All validations passed!">>
                 ELSE <<FailureReport(first)>>)
       /\ (LoadJson(file) = Passed /\ d[Root] = Dict /\ d["backgrounds"] = Dict)
            => ValidateBackgrounds(d) = FirstFailure(BackgroundChecks(d))
       /\ (LoadJson(file) = Passed /\ d[Root] = Dict /\ d["comments"] = List
             /\ ListLen(d, "comments") > 0)
            => ValidateComments(d) = FirstFailure(CommentChecks(d))

\* a dataset that breaks a rule of the backgrounds (in pages_list[0] and in
\* nothing before it) and a rule of the comments: the first is reported
C7_Witness ==
  /\ vpc = "done"
  /\ exit_code = 1
  /\ LoadJson(file) = Passed
  /\ ValidatePerson(file.content) = Passed
  /\ ValidateBackgroundObject(file.content, "backgrounds.pages_list[0]") # Passed
  /\ ValidateComments(file.content) # Passed
  /\ error = ValidateBackgroundObject(file.content, "backgrounds.pages_list[0]")
  /\ printed = <<"JSON syntax is valid", "Person object is valid", "Validation failed">>

\* C8: every dataset the validator rejects is rejected by a ValidationError
\* whose reason names the offending place; none is rejected by another
\* exception, whose message names no place.
C8_Original ==
  (vpc = "done" /\ exit_code = 1 /\ LoadJson(file) = Passed)
    => /\ error.kind = "ValidationError"
       /\ error.where # ""

====
